---- MODULE Spec2Model ----
(***************************************************************************)
(* A model of src/app.py: the office list of data/offices.yaml is loaded,  *)
(* validated record by record, and every valid record becomes one marker   *)
(* (round icon, popup, tooltip) on a map centred on the mean coordinate.   *)
(*                                                                         *)
(* Values.  A YAML value is a record [k, v, s]: k is its kind, v its       *)
(* number (0 when it has none) and s its characters when it is a string.   *)
(*   "none"   None (YAML null)            "nan"  float('nan') (YAML .nan)   *)
(*   "inf"    float('inf') (YAML .inf)    "num"  an int or float, value v   *)
(*   "str"    a string float() rejects    "strnum" a string float() reads  *)
(*   "strnan" the string "nan"            "strinf" the string "inf"        *)
(*   "list"   a list of two or more items "dict"  a mapping                *)
(* A list element is [kind, rec]: kind "map" with rec its fields, "scalar" *)
(* for an int, float, bool or None element, "text" for a string element.   *)
(* Numbers are integers here: the sums below are exact, float rounding is  *)
(* not modelled; a quotient is kept as a fraction in lowest terms.         *)
(***************************************************************************)
EXTENDS Integers, Sequences, FiniteSets, TLC

VARIABLES file, pc, records, i, valids, errs, errs_shown, message,
          center, map_made, markers, mi, icon_url, icon_size, div_icon

vars == <<file, pc, records, i, valids, errs, errs_shown, message,
          center, map_made, markers, mi, icon_url, icon_size, div_icon>>

\* ------------------------------------------------------------- bounds
MaxRecs == 2
MaxUrlLen == 5

\* ---------------------------------------------------------- constants
REQUIRED_FOR_MARKER == <<"latitude", "longitude", "city">>
REQUIRED_FOR_CARD == <<"nome", "region", "CapcoHub", "contact">>
IconSizeMin == 24
IconSizeMax == 72
IconSizeStep == 2
IconSizeDefault == 44
IMAGE_EXTENSIONS ==
  << <<".", "p", "n", "g">>, <<".", "j", "p", "g">>, <<".", "j", "p", "e", "g">>,
     <<".", "g", "i", "f">>, <<".", "w", "e", "b", "p">>, <<".", "b", "m", "p">>,
     <<".", "s", "v", "g">> >>

\* ------------------------------------------------------------- values
V(kind, v, s) == [k |-> kind, v |-> v, s |-> s]
None == V("none", 0, <<>>)
FNaN == V("nan", 0, <<>>)
FInf == V("inf", 0, <<>>)
Num(n) == V("num", n, <<>>)
Str(s) == V("str", 0, s)
StrNan == V("strnan", 0, <<"n", "a", "n">>)
StrInf == V("strinf", 0, <<"i", "n", "f">>)
StrTwenty == V("strnum", 20, <<"2", "0">>)
List2 == V("list", 0, <<>>)
Dict == V("dict", 0, <<>>)
EmptyStr == Str(<<>>)

IsStr(x) == x.k \in {"str", "strnum", "strnan", "strinf"}

\* Python truthiness of a value (`not url`, `a or b`).
Truthy(x) ==
  CASE x.k = "none" -> FALSE
    [] x.k = "num" -> x.v # 0
    [] IsStr(x) -> x.s # <<>>
    [] OTHER -> TRUE

\* dict.get(key, default)
Get(r, f, default) == IF f \in DOMAIN r THEN r[f] ELSE default

\* pandas.isna as line 47 uses it: "na" (true), "notna" (false); on a list of two
\* or more items it returns an array whose truth value `or` cannot take: "raise".
pd_isna(x) ==
  CASE x.k \in {"none", "nan"} -> "na"
    [] x.k = "list" -> "raise"
    [] OTHER -> "notna"

\* float(x): [ok, val]; a ValueError or TypeError is ok = FALSE.
float(x) ==
  CASE x.k \in {"num", "strnum"} -> [ok |-> TRUE, val |-> Num(x.v)]
    [] x.k \in {"nan", "strnan"} -> [ok |-> TRUE, val |-> FNaN]
    [] x.k \in {"inf", "strinf"} -> [ok |-> TRUE, val |-> FInf]
    [] OTHER -> [ok |-> FALSE, val |-> None]

\* ------------------------------------------------- validate_records
\* Lines 45-48: the required fields in order; a field is missing when the key is
\* absent or its value is NA. `field not in r` raises TypeError on an element
\* that is no container (int, float, bool, None); on a string element it is a
\* substring test, true for every field name; pd.isna of a list raises.
RECURSIVE missing_scan(_, _, _)
missing_scan(r, fields, acc) ==
  IF fields = <<>> THEN [raised |-> FALSE, missing |-> acc]
  ELSE LET f == Head(fields) IN
    IF r.kind = "scalar" THEN [raised |-> TRUE, missing |-> acc]
    ELSE IF r.kind = "text" \/ f \notin DOMAIN r.rec
      THEN missing_scan(r, Tail(fields), Append(acc, f))
    ELSE IF pd_isna(r.rec[f]) = "raise" THEN [raised |-> TRUE, missing |-> acc]
    ELSE IF pd_isna(r.rec[f]) = "na"
      THEN missing_scan(r, Tail(fields), Append(acc, f))
    ELSE missing_scan(r, Tail(fields), acc)

\* Lines 49-50 with the key "address" forgotten.
address_missing_adress_only(r) ==
  r.kind = "text" \/ "adress" \notin DOMAIN r.rec

\* Lines 49-50.
address_missing(r) ==
  r.kind = "text" \/ ("adress" \notin DOMAIN r.rec /\ "address" \notin DOMAIN r.rec)

MissingError(n, fields) == [item |-> n, kind |-> "faltando campos", fields |-> fields]
LatLonError(n) == [item |-> n, kind |-> "latitude/longitude invalidas", fields |-> <<>>]

\* Line 55: the two assignments in order; the first stays done when the second
\* conversion raises.
coerce(r) ==
  LET lat == float(r.rec["latitude"])
      r1 == [r EXCEPT !.rec["latitude"] = lat.val]
      lon == float(r1.rec["longitude"])
  IN IF ~lat.ok THEN [ok |-> FALSE, r |-> r]
     ELSE IF ~lon.ok THEN [ok |-> FALSE, r |-> r1]
     ELSE [ok |-> TRUE, r |-> [r1 EXCEPT !.rec["longitude"] = lon.val]]

\* One iteration of the loop of lines 44-58 on record r, item number n:
\* out is "raise" (an exception leaves validate_records), "error" (err is
\* appended to errors) or "valid" (r is appended to valids); r is the record as
\* the iteration leaves it.
validate_one(r, n) ==
  LET scan == missing_scan(r, REQUIRED_FOR_MARKER \o REQUIRED_FOR_CARD, <<>>)
      missing == IF address_missing(r) THEN Append(scan.missing, "adress/address")
                 ELSE scan.missing
  IN IF scan.raised THEN [out |-> "raise", r |-> r, err |-> LatLonError(0)]
     ELSE IF missing # <<>> THEN [out |-> "error", r |-> r, err |-> MissingError(n, missing)]
     ELSE LET c == coerce(r) IN
       IF c.ok THEN [out |-> "valid", r |-> c.r, err |-> LatLonError(0)]
       ELSE [out |-> "error", r |-> c.r, err |-> LatLonError(n)]

\* ------------------------------------------------ compute_map_center
Abs(n) == IF n < 0 THEN -n ELSE n
RECURSIVE GCD(_, _)
GCD(a, b) == IF b = 0 THEN a ELSE GCD(b, a % b)

\* float + float
FAdd(a, b) ==
  IF a.k = "nan" \/ b.k = "nan" THEN FNaN
  ELSE IF a.k = "inf" \/ b.k = "inf" THEN FInf
  ELSE Num(a.v + b.v)

\* sum(xs): left to right from 0
RECURSIVE FSum(_)
FSum(xs) == IF xs = <<>> THEN Num(0) ELSE FAdd(FSum(SubSeq(xs, 1, Len(xs) - 1)), xs[Len(xs)])

\* float / len: the quotient n/d in lowest terms
FDiv(a, n) ==
  IF a.k # "num" THEN [k |-> a.k, n |-> 0, d |-> 1]
  ELSE LET g == GCD(Abs(a.v), n) IN [k |-> "num", n |-> a.v \div g, d |-> n \div g]

\* Lines 61-63 with the two axes taken for each other.
compute_map_center_swapped(recs) ==
  LET lats == [j \in 1..Len(recs) |-> recs[j].rec["latitude"]]
      lons == [j \in 1..Len(recs) |-> recs[j].rec["longitude"]]
  IN <<FDiv(FSum(lons), Len(lons)), FDiv(FSum(lats), Len(lats))>>

\* Lines 61-63, for a non-empty recs (the caller stops on an empty one).
compute_map_center(recs) ==
  LET lats == [j \in 1..Len(recs) |-> recs[j].rec["latitude"]]
      lons == [j \in 1..Len(recs) |-> recs[j].rec["longitude"]]
  IN <<FDiv(FSum(lats), Len(lats)), FDiv(FSum(lons), Len(lons))>>

\* -------------------------------------------------- _is_direct_image
UPPER == <<"A","B","C","D","E","F","G","H","I","J","K","L","M",
           "N","O","P","Q","R","S","T","U","V","W","X","Y","Z">>
LOWER == <<"a","b","c","d","e","f","g","h","i","j","k","l","m",
           "n","o","p","q","r","s","t","u","v","w","x","y","z">>
LowerChar(c) ==
  IF \E n \in 1..Len(UPPER) : UPPER[n] = c
  THEN LOWER[CHOOSE n \in 1..Len(UPPER) : UPPER[n] = c] ELSE c
\* str.lower()
Lower(s) == [n \in 1..Len(s) |-> LowerChar(s[n])]
\* str.split("?")[0]
RECURSIVE BeforeFirstQ(_)
BeforeFirstQ(s) ==
  IF s = <<>> \/ Head(s) = "?" THEN <<>> ELSE <<Head(s)>> \o BeforeFirstQ(Tail(s))
\* str.endswith(tuple)
EndsWith(s, e) == Len(s) >= Len(e) /\ SubSeq(s, Len(s) - Len(e) + 1, Len(s)) = e
EndsWithAny(s, exts) == \E n \in 1..Len(exts) : EndsWith(s, exts[n])

\* Lines 65-68 without the lower(): a case-sensitive match.
is_direct_image_case_sensitive(url) ==
  IF ~Truthy(url) \/ ~IsStr(url) THEN FALSE
  ELSE EndsWithAny(BeforeFirstQ(url.s), IMAGE_EXTENSIONS)

\* Lines 65-68.
is_direct_image(url) ==
  IF ~Truthy(url) \/ ~IsStr(url) THEN FALSE
  ELSE EndsWithAny(BeforeFirstQ(Lower(url.s)), IMAGE_EXTENSIONS)

\* ------------------------------------------ build_round_logo_divicon
NoIcon == [kind |-> "none", src |-> <<>>, icon_size |-> <<0, 0>>, icon_anchor |-> <<0, 0>>]

\* Lines 100-121: the round image, or the grey circle.
build_round_logo_divicon(logo_url, size) ==
  LET diameter == size
      radius == diameter \div 2
  IN IF Truthy(logo_url) /\ is_direct_image(logo_url)
     THEN [kind |-> "image", src |-> logo_url.s,
           icon_size |-> <<diameter, diameter>>, icon_anchor |-> <<radius, radius>>]
     ELSE [kind |-> "grey", src |-> <<>>,
           icon_size |-> <<diameter, diameter>>, icon_anchor |-> <<radius, radius>>]

\* ---------------------------------------------------- build_popup_html
\* Lines 70-98: the values the template is filled with.
build_popup_html(r) ==
  LET adress == Get(r.rec, "adress", None)
      address == Get(r.rec, "address", None)
      img_url == Get(r.rec, "card_image_url", EmptyStr)
  IN [city |-> Get(r.rec, "city", EmptyStr),
      nome |-> Get(r.rec, "nome", EmptyStr),
      region |-> Get(r.rec, "region", EmptyStr),
      hub |-> Get(r.rec, "CapcoHub", EmptyStr),
      address |-> IF Truthy(adress) THEN adress
                  ELSE IF Truthy(address) THEN address ELSE EmptyStr,
      contact |-> Get(r.rec, "contact", EmptyStr),
      img_url |-> img_url,
      show_img |-> is_direct_image(img_url)]

\* Lines 145-157 with longitude first in the location.
marker_swapped(rec, size) ==
  [location |-> <<rec.rec["longitude"], rec.rec["latitude"]>>,
   popup |-> build_popup_html(rec),
   tooltip |-> <<Get(rec.rec, "city", EmptyStr), Get(rec.rec, "nome", EmptyStr)>>,
   icon |-> build_round_logo_divicon(Get(rec.rec, "icon_image_url", None), size)]

\* Lines 145-157: the marker of one valid record.
marker(rec, size) ==
  [location |-> <<rec.rec["latitude"], rec.rec["longitude"]>>,
   popup |-> build_popup_html(rec),
   tooltip |-> <<Get(rec.rec, "city", EmptyStr), Get(rec.rec, "nome", EmptyStr)>>,
   icon |-> build_round_logo_divicon(Get(rec.rec, "icon_image_url", None), size)]

\* ------------------------------------------------ the inputs explored
Drop(r, S) == [f \in DOMAIN r \ S |-> r[f]]
Put(r, f, x) == [g \in DOMAIN r \cup {f} |-> IF g = f THEN x ELSE r[g]]
Office(rec) == [kind |-> "map", rec |-> rec]
NoFields == [f \in {} |-> None]

\* A complete record at (lat, lon), its address under the key "adress".
Base(lat, lon) ==
  [latitude |-> Num(lat), longitude |-> Num(lon), city |-> Str(<<"c">>),
   nome |-> Str(<<"n">>), region |-> Str(<<"r">>), CapcoHub |-> Str(<<"h">>),
   contact |-> Str(<<"t">>), adress |-> Str(<<"a">>)]
B == Base(10, 20)
CardKeys == {"city", "nome", "region", "CapcoHub", "contact"}

\* The list elements a file is made of: two complete records, and the first of
\* them with one or two fields changed, every kind of value and every rule of
\* validate_records among them; an int and a string as list elements.
Offices ==
  {Office(B), Office(Base(20, 40))}
  \cup {Office(Put(B, "latitude", x)) :
          x \in {None, FNaN, FInf, StrTwenty, StrNan, StrInf, Str(<<"x">>), List2, Dict}}
  \cup {Office(Put(B, "longitude", x)) : x \in {Str(<<"x">>), StrInf}}
  \cup {Office(Drop(B, {f})) : f \in {"latitude", "longitude"} \cup CardKeys}
  \cup {Office(Put(B, "contact", x)) : x \in {None, List2}}
  \cup {Office(Drop(Put(B, "contact", List2), {"city"})),
        Office(Drop(B, {"city", "contact"})),
        Office(Drop(Put(B, "latitude", Str(<<"x">>)), {"contact"}))}
  \cup {Office(Drop(B, {"adress"})),
        Office(Put(Drop(B, {"adress"}), "address", Str(<<"a">>))),
        Office(Put(B, "adress", None))}
  \cup {Office(Put(B, "icon_image_url", Str(<<"l", ".", "P", "N", "G">>))),
        Office(Put(B, "icon_image_url", Str(<<"p", "?", "i", "d">>)))}
  \cup {[kind |-> "scalar", rec |-> NoFields], [kind |-> "text", rec |-> NoFields]}

Files ==
  {[t |-> "unreadable", items |-> <<>>], [t |-> "notlist", items |-> <<>>]}
  \cup {[t |-> "list", items |-> s] : s \in UNION {[1..n -> Offices] : n \in 0..MaxRecs}}

Alphabet == {".", "?", "g", "i", "f", "G"}
SampleUrls ==
  { <<"x", "/", "l", "o", "g", "o", ".", "P", "N", "G">>,
    <<"x", "/", "p", "r", "o", "f", "i", "l", "e", "?", "i", "d", "=", "1">>,
    <<"a", ".", "j", "p", "g">>, <<"a", ".", "J", "p", "e", "G", "?", "w", "=", "1">>,
    <<"a", ".", "w", "e", "b", "p">>, <<"a", ".", "b", "m", "p">>,
    <<"a", ".", "s", "v", "g">>, <<"a", ".", "p", "n", "g", ".", "t", "x", "t">>,
    <<"a", "?", "f", "=", "b", ".", "p", "n", "g">>, <<"p", "n", "g">> }
UrlInputs ==
  {None, Num(0), Num(7), Dict}
  \cup {Str(s) : s \in SampleUrls \cup UNION {[1..n -> Alphabet] : n \in 0..MaxUrlLen}}
IconSizes == {d \in IconSizeMin..IconSizeMax : (d - IconSizeMin) % IconSizeStep = 0}

\* ------------------------------------------------------- render pass
NoCenter == <<[k |-> "unset", n |-> 0, d |-> 1], [k |-> "unset", n |-> 0, d |-> 1]>>

Init ==
  /\ file \in Files
  /\ pc = "load"
  /\ records = <<>> /\ i = 1 /\ valids = <<>> /\ errs = <<>>
  /\ errs_shown = FALSE /\ message = "" /\ center = NoCenter
  /\ map_made = FALSE /\ markers = <<>> /\ mi = 1
  /\ icon_url = None /\ icon_size = IconSizeDefault /\ div_icon = NoIcon

\* Lines 128-132 with load_offices_from_yaml (35-40): an unreadable file and a
\* top-level value that is no list both end the pass with st.error and st.stop.
Load ==
  /\ pc = "load"
  /\ IF file.t = "list"
     THEN /\ records' = file.items /\ pc' = "validate" /\ message' = message
     ELSE /\ records' = records /\ pc' = "load_failed" /\ message' = "Erro ao ler"
  /\ UNCHANGED <<file, i, valids, errs, errs_shown, center, map_made, markers,
                 mi, icon_url, icon_size, div_icon>>

\* Lines 44-58, one iteration, with valids.insert(0, r) for valids.append(r).
ValidateStep_prepend ==
  /\ pc = "validate" /\ i <= Len(records)
  /\ LET res == validate_one(records[i], i) IN
       /\ records' = [records EXCEPT ![i] = res.r]
       /\ pc' = IF res.out = "raise" THEN "crashed" ELSE pc
       /\ i' = IF res.out = "raise" THEN i ELSE i + 1
       /\ valids' = IF res.out = "valid" THEN <<res.r>> \o valids ELSE valids
       /\ errs' = IF res.out = "error" THEN Append(errs, res.err) ELSE errs
  /\ UNCHANGED <<file, errs_shown, message, center, map_made, markers,
                 mi, icon_url, icon_size, div_icon>>

\* Lines 44-58, one iteration. The record is the list's own object: the
\* coercion of line 55 is seen in records too. An exception is caught nowhere
\* (line 134): the pass ends with it.
ValidateStep ==
  /\ pc = "validate" /\ i <= Len(records)
  /\ LET res == validate_one(records[i], i) IN
       /\ records' = [records EXCEPT ![i] = res.r]
       /\ pc' = IF res.out = "raise" THEN "crashed" ELSE pc
       /\ i' = IF res.out = "raise" THEN i ELSE i + 1
       /\ valids' = IF res.out = "valid" THEN Append(valids, res.r) ELSE valids
       /\ errs' = IF res.out = "error" THEN Append(errs, res.err) ELSE errs
  /\ UNCHANGED <<file, errs_shown, message, center, map_made, markers,
                 mi, icon_url, icon_size, div_icon>>

\* Lines 59 and 134-142: validate_records returns; the errors are listed, no
\* valid record ends the pass, otherwise the map is made at the mean coordinate.
Gate ==
  /\ pc = "validate" /\ i > Len(records)
  /\ errs_shown' = (errs # <<>>)
  /\ IF valids = <<>>
     THEN /\ pc' = "no_valid" /\ message' = "Nenhum escritorio valido encontrado."
          /\ UNCHANGED <<center, map_made>>
     ELSE /\ pc' = "markers" /\ center' = compute_map_center(valids)
          /\ map_made' = TRUE /\ message' = message
  /\ UNCHANGED <<file, records, i, valids, errs, markers, mi, icon_url, icon_size, div_icon>>

\* Lines 144-157, one iteration.
AddMarker ==
  /\ pc = "markers" /\ mi <= Len(valids)
  /\ icon_url' = Get(valids[mi].rec, "icon_image_url", None)
  /\ div_icon' = build_round_logo_divicon(icon_url', icon_size)
  /\ markers' = Append(markers, marker(valids[mi], icon_size))
  /\ mi' = mi + 1
  /\ UNCHANGED <<file, pc, records, i, valids, errs, errs_shown, message, center,
                 map_made, icon_size>>

\* Line 159.
Show ==
  /\ pc = "markers" /\ mi > Len(valids)
  /\ pc' = "rendered"
  /\ UNCHANGED <<file, records, i, valids, errs, errs_shown, message, center,
                 map_made, markers, mi, icon_url, icon_size, div_icon>>

Next == Load \/ ValidateStep \/ Gate \/ AddMarker \/ Show

Spec == Init /\ [][Next]_vars

\* ------------------------------------- build_round_logo_divicon alone
InitIcon ==
  /\ file = [t |-> "unreadable", items |-> <<>>]
  /\ pc = "icon"
  /\ records = <<>> /\ i = 1 /\ valids = <<>> /\ errs = <<>>
  /\ errs_shown = FALSE /\ message = "" /\ center = NoCenter
  /\ map_made = FALSE /\ markers = <<>> /\ mi = 1
  /\ div_icon = NoIcon
  /\ \/ icon_url \in UrlInputs /\ icon_size = IconSizeDefault
     \/ icon_url \in {Str(s) : s \in SampleUrls} \cup {None} /\ icon_size \in IconSizes

BuildIcon ==
  /\ pc = "icon"
  /\ div_icon' = build_round_logo_divicon(icon_url, icon_size)
  /\ pc' = "icon_done"
  /\ UNCHANGED <<file, records, i, valids, errs, errs_shown, message, center,
                 map_made, markers, mi, icon_url, icon_size>>

NextIcon == BuildIcon

SpecIcon == InitIcon /\ [][NextIcon]_vars

\* ===================================================== the claims
\* What the claims speak of, stated on the file's own content (file.items), not
\* on what validate_records computed.
Items == file.items
RequiredKeys == {"latitude", "longitude", "city", "nome", "region", "CapcoHub", "contact"}
IsNull(x) == x.k \in {"none", "nan"}
Present(e, f) == e.kind = "map" /\ f \in DOMAIN e.rec /\ ~IsNull(e.rec[f])
HasAddress(e) == e.kind = "map" /\ {"adress", "address"} \cap DOMAIN e.rec # {}
\* float() reads x: as a finite number, or as any float at all (nan, inf too).
ReadsFinite(x) == x.k \in {"num", "strnum"}
ReadsFloat(x) == x.k \in {"num", "strnum", "nan", "strnan", "inf", "strinf"}
FloatOf(x) == IF ReadsFinite(x) THEN Num(x.v) ELSE IF x.k \in {"nan", "strnan"} THEN FNaN ELSE FInf
\* The record passes every rule of section 4.2 as the code applies them.
Accepted(e) ==
  /\ \A f \in RequiredKeys : Present(e, f)
  /\ HasAddress(e)
  /\ ReadsFloat(e.rec["latitude"]) /\ ReadsFloat(e.rec["longitude"])
Coerced(e) ==
  [e EXCEPT !.rec["latitude"] = FloatOf(@), !.rec["longitude"] = FloatOf(@)]
\* The names of the missing fields of a mapping, in the order of the schema.
MissingNames(e) ==
  LET Miss(f) == ~Present(e, f) IN
  SelectSeq(REQUIRED_FOR_MARKER \o REQUIRED_FOR_CARD, Miss)
    \o (IF HasAddress(e) THEN <<>> ELSE <<"adress/address">>)
ErrorsOf(j) == {n \in DOMAIN errs : errs[n].item = j}
\* The accepted records among the first n of the file, and the m-th of them.
AcceptedUpTo(n) == {j \in 1..n : Accepted(Items[j])}
AcceptedIndices == AcceptedUpTo(Len(Items))
NthAccepted(m) ==
  CHOOSE j \in AcceptedIndices : Cardinality(AcceptedUpTo(j)) = m
ExpectedValids(n) == [m \in 1..Cardinality(AcceptedUpTo(n)) |-> Coerced(Items[NthAccepted(m)])]
\* The records the loop of validate_records has taken up: those it has left
\* behind and, once an exception has ended it, the one that raised.
Passed == IF pc = "load" THEN {} ELSE IF pc = "crashed" THEN 1..i ELSE 1..(i - 1)
Returned == pc \in {"no_valid", "markers", "rendered"}
AllMappings == \A j \in DOMAIN Items : Items[j].kind = "map"
Terminal == pc \in {"load_failed", "crashed", "no_valid", "rendered"}

\* C1: on every list of records (mappings) each record validate_records takes
\* up ends in valids or gets exactly one error, never both and never neither,
\* so that the lists it returns have len(valids) + len(errors) = len(input).
C1_CountLaw ==
  AllMappings =>
    /\ Len(valids) + Len(errs) = Cardinality(Passed)
    /\ \A j \in Passed : Cardinality(ErrorsOf(j)) <= 1
    /\ Returned => Len(valids) + Len(errs) = Len(Items)

\* C2: every valid record has a finite latitude and longitude and has city,
\* nome, region, CapcoHub and contact present and non-null, whatever the raw
\* coordinate values were.
C2_ValidsFinite ==
  \A n \in DOMAIN valids :
    /\ valids[n].rec["latitude"].k = "num" /\ valids[n].rec["longitude"].k = "num"
    /\ \A f \in RequiredKeys : Present(valids[n], f)

\* C3: validate_records never raises on a list load_offices_from_yaml returns.
C3_NeverRaises == pc # "crashed"

\* C4: a pass ends in exactly one of three ways: the load fails and nothing is
\* validated, listed or mapped; no record is valid and no center or map is
\* made; or the map is rendered, which is what happens whenever the file is a
\* list with at least one valid record.
C4_ThreeOutcomes ==
  Terminal =>
    \/ /\ pc = "load_failed" /\ file.t # "list"
       /\ valids = <<>> /\ errs = <<>> /\ ~errs_shown /\ ~map_made
    \/ /\ pc = "no_valid" /\ file.t = "list" /\ AcceptedIndices = {}
       /\ center = NoCenter /\ ~map_made
    \/ /\ pc = "rendered" /\ file.t = "list" /\ AcceptedIndices # {} /\ map_made

\* C5: the valid output is the input with the rejected records removed, in
\* the input's order, a record being accepted on its own fields alone.
\* At every point of the loop valids is that of the records passed so far, and
\* the output, when validate_records returns, that of the whole input.
C5_ValidsAreFilteredInput ==
  /\ pc # "load" => valids = ExpectedValids(i - 1)
  /\ Returned => valids = ExpectedValids(Len(Items))
C5_Witness ==
  /\ Returned /\ Len(Items) = 2 /\ ~Accepted(Items[1]) /\ Accepted(Items[2])
  /\ Items[2].rec["latitude"] = StrTwenty
  /\ valids = <<Coerced(Items[2])>> /\ Len(errs) = 1

\* C6: a record with a missing required field gets one "missing fields" error
\* with its 1-based position and all its missing names; a record with every
\* required field present and non-null whose latitude or longitude float()
\* cannot read gets the "invalid latitude/longitude" error instead.
C6_ErrorClasses ==
  \A j \in Passed :
    LET e == Items[j] IN
    e.kind = "map" =>
      /\ MissingNames(e) # <<>> =>
           \E n \in DOMAIN errs :
             ErrorsOf(j) = {n} /\ errs[n] = MissingError(j, MissingNames(e))
      /\ (MissingNames(e) = <<>>
            /\ ~(ReadsFloat(e.rec["latitude"]) /\ ReadsFloat(e.rec["longitude"]))) =>
           \E n \in DOMAIN errs : ErrorsOf(j) = {n} /\ errs[n] = LatLonError(j)

\* Every required field holds a scalar that validation accepts, the
\* coordinates finite numbers or strings of them.
OthersValid(e) ==
  /\ \A f \in RequiredKeys : Present(e, f) /\ e.rec[f].k # "list"
  /\ ReadsFinite(e.rec["latitude"]) /\ ReadsFinite(e.rec["longitude"])

\* C7: a record whose required fields are all valid is rejected, with an error
\* naming "adress/address", exactly when it has neither key; with "adress" or
\* "address" alone it is accepted. Stated of every record the loop has passed.
C7_AddressRule ==
  pc # "load" =>
    \A j \in 1..(i - 1) :
      LET e == Items[j]
          pos == j - Cardinality({n \in DOMAIN errs : errs[n].item < j})
      IN OthersValid(e) =>
        IF HasAddress(e)
        THEN ErrorsOf(j) = {} /\ pos \in DOMAIN valids /\ valids[pos] = Coerced(e)
        ELSE /\ \E n \in DOMAIN errs :
                  ErrorsOf(j) = {n} /\ errs[n] = MissingError(j, <<"adress/address">>)
             /\ Len(valids) + Len(errs) = i - 1
C7_Witness ==
  /\ pc = "validate" /\ i = 3
  /\ OthersValid(Items[1]) /\ ~HasAddress(Items[1])
  /\ OthersValid(Items[2]) /\ DOMAIN Items[2].rec \cap {"adress", "address"} = {"address"}
  /\ Len(valids) = 1 /\ Len(errs) = 1

\* The rule of section 4.4, stated on the characters of u.
DirectImageRule(u) ==
  /\ IsStr(u) /\ u.s # <<>>
  /\ LET qs == {n \in DOMAIN u.s : u.s[n] = "?"}
         end == IF qs = {} THEN Len(u.s)
                ELSE (CHOOSE n \in qs : \A m \in qs : n <= m) - 1
     IN \E x \in DOMAIN IMAGE_EXTENSIONS :
          LET ext == IMAGE_EXTENSIONS[x] IN
          /\ end >= Len(ext)
          /\ \A m \in DOMAIN ext : LowerChar(u.s[end - Len(ext) + m]) = ext[m]

\* C8: build_round_logo_divicon gives, for every url and diameter, an icon of
\* size (diameter, diameter): the image exactly when url is a non-empty string
\* whose part before the first "?" ends, whatever the case, with one of the
\* seven extensions, and the grey circle otherwise.
C8_IconTotalTwoValued ==
  pc = "icon_done" =>
    /\ div_icon.icon_size = <<icon_size, icon_size>>
    /\ div_icon.kind \in {"image", "grey"}
    /\ div_icon.kind = "image" <=> DirectImageRule(icon_url)
C8_Witness ==
  /\ pc = "icon_done" /\ div_icon.kind = "image" /\ icon_size = IconSizeMax
  /\ \E n \in DOMAIN icon_url.s : icon_url.s[n] = "?"
  /\ \E n \in DOMAIN icon_url.s : LowerChar(icon_url.s[n]) # icon_url.s[n]

\* C9: a completed pass has one marker per valid record and none for a
\* rejected one, in the file's order, each at its record's coerced coordinate.
C9_MarkersFollowValids ==
  pc = "rendered" =>
    /\ Len(markers) = Cardinality(AcceptedIndices)
    /\ \A n \in DOMAIN markers :
         LET e == Coerced(Items[NthAccepted(n)]) IN
         /\ markers[n].location = <<e.rec["latitude"], e.rec["longitude"]>>
         /\ markers[n].tooltip = <<e.rec["city"], e.rec["nome"]>>
C9_Witness ==
  /\ pc = "rendered" /\ Len(Items) = 2 /\ ~Accepted(Items[1])
  /\ Len(markers) = 1 /\ markers[1].location = <<Num(20), Num(40)>>

\* q is the mean of field f over recs, as float arithmetic gives it.
RECURSIVE SumOf(_, _, _)
SumOf(recs, f, n) == IF n = 0 THEN 0 ELSE recs[n].rec[f].v + SumOf(recs, f, n - 1)
MeanIs(q, recs, f) ==
  LET ks == {recs[n].rec[f].k : n \in DOMAIN recs} IN
  IF "nan" \in ks THEN q.k = "nan"
  ELSE IF "inf" \in ks THEN q.k = "inf"
  ELSE /\ q.k = "num" /\ q.d > 0 /\ q.n * Len(recs) = q.d * SumOf(recs, f, Len(recs))
       /\ GCD(Abs(q.n), q.d) = 1

\* C10: compute_map_center gives sum of latitudes / count and sum of
\* longitudes / count, each axis on its own; (10, 20) and (20, 40) give (15, 30).
C10_CenterIsMean ==
  map_made =>
    /\ MeanIs(center[1], valids, "latitude") /\ MeanIs(center[2], valids, "longitude")
    /\ (/\ Len(valids) = 2
        /\ <<valids[1].rec["latitude"], valids[1].rec["longitude"]>> = <<Num(10), Num(20)>>
        /\ <<valids[2].rec["latitude"], valids[2].rec["longitude"]>> = <<Num(20), Num(40)>>)
       => center = <<[k |-> "num", n |-> 15, d |-> 1], [k |-> "num", n |-> 30, d |-> 1]>>
C10_Witness ==
  /\ map_made /\ Len(valids) = 2
  /\ valids[1].rec["latitude"] = Num(10) /\ valids[2].rec["latitude"] = Num(20)
  /\ center = <<[k |-> "num", n |-> 15, d |-> 1], [k |-> "num", n |-> 30, d |-> 1]>>

====
